---- MODULE Spec2Model ----
(***************************************************************************)
(* Model of the PyElastica simulation core:                                *)
(*   - BaseSystemCollection (elastica/modules/base_system.py): the entity  *)
(*     sequence, the feature groups and the one-way finalize transition;   *)
(*   - Contact / _Contact (elastica/modules/contact.py): contact           *)
(*     declarations, their builder and their finalize-time binding;        *)
(*   - SymplecticStepperMixin, PositionVerlet, PEFRL                       *)
(*     (elastica/timestepper/symplectic_steppers.py): stage construction   *)
(*     and the step protocol.                                              *)
(* Python sequences are 0-based; TLA+ sequences are 1-based.  Indices in   *)
(* the model are the Python ones and are converted where a sequence is     *)
(* accessed.                                                               *)
(***************************************************************************)
EXTENDS Integers, Sequences, FiniteSets, TLC

VARIABLES
    systems,                    \* BaseSystemCollection._systems
    memory_blocks,              \* BaseSystemCollection._memory_blocks
    finalize_flag,              \* BaseSystemCollection._finalize_flag
    feature_group_finalize,     \* _feature_group_finalize: [none, ops]
    feature_group_synchronize,  \* _feature_group_synchronize (OperatorGroupFIFO)
    contacts,                   \* Contact._contacts: [deleted, list]
    forcings,                   \* pending declarations of the forcing module
    warning_log,                \* records emitted through logger.warning
    finalize_log,               \* statements finalize() has executed, in order
    n_aggregate,                \* number of calls of construct_memory_block_structures
    n_declared,                 \* number of declarations (contact, forcing) made
    designated,                 \* for every declaration, by id: the entities its
                                \* arguments designated when it was made
    n_mutations,                \* number of calls of insert, __setitem__, __delitem__
    call,                       \* the method the user called last
    err,                        \* the exception the last call raised, or "none"
    ret                         \* the value the last call returned

registry == <<systems, memory_blocks, finalize_flag, feature_group_finalize,
              feature_group_synchronize, contacts, forcings, warning_log,
              finalize_log, n_aggregate, n_declared, designated, n_mutations>>

VARIABLES
    stepper,        \* the time stepper object: [variant, built, steps_and_prefactors]
    blocks,         \* state of every aggregated block: [pos, vel, ext], and its
                    \* position and velocity when the current step began
    constrain_ops,  \* _feature_group_constrain_values/_rates: constraint records
    callback_ops,   \* _feature_group_callback: callback records
    callback_log,   \* invocations of the callbacks in the current step, in order
    time,           \* local variable time of do_step
    dt,             \* argument dt of step
    time0,          \* argument time of step
    stage,          \* position of the loop over steps_and_prefactors[:-1]
    pc,             \* position inside do_step
    oplog,          \* operations performed by the current step, in order
    n_steps         \* number of step() calls made

stepping == <<stepper, blocks, constrain_ops, callback_ops, callback_log, time, dt, time0,
              stage, pc, oplog, n_steps>>

vars == <<registry, call, err, ret, stepping>>

----------------------------------------------------------------------------
(* Bounds *)

MaxSystems == 2     \* entities a user adds to the sequence
MaxBodies == 1      \* entities a user adds before declaring contacts
MaxContacts == 2    \* contact declarations
MaxForcings == 1    \* forcing declarations
MaxMutations == 1   \* calls of insert, __setitem__ and __delitem__
MaxFinalize == 2    \* calls of finalize() that get past the flag assertion
MaxSteps == 2       \* calls of step()
MaxDt == 2          \* dt ranges over 100, 200, .., 100*MaxDt units of time
MaxVel == 1         \* initial velocity of a block, in units
MaxCallbacks == 2   \* registered callbacks

----------------------------------------------------------------------------
(* Python list primitives *)

\* list[i] for a Python index i (negative indices count from the end)
InRange(s, i) == -Len(s) <= i /\ i < Len(s)
Norm(s, i) == IF i < 0 THEN i + Len(s) ELSE i
At(s, i) == s[Norm(s, i) + 1]

\* list.insert(idx, x): the index is clamped into 0..len
ListInsert(s, idx, x) ==
    LET n == Len(s)
        j == IF idx < 0 THEN (IF idx + n < 0 THEN 0 ELSE idx + n)
             ELSE (IF idx > n THEN n ELSE idx)
    IN  SubSeq(s, 1, j) \o <<x>> \o SubSeq(s, j + 1, n)

\* list[idx] = x for an index in range
ListSet(s, idx, x) == [s EXCEPT ![Norm(s, idx) + 1] = x]

\* del list[idx] for an index in range
ListDel(s, idx) ==
    LET j == Norm(s, idx) + 1
    IN  SubSeq(s, 1, j - 1) \o SubSeq(s, j + 1, Len(s))

\* list.index(x): 0-based position of the first element equal to x, -1 for ValueError
ListIndex(s, x) ==
    IF \E k \in 1..Len(s) : s[k] = x
    THEN (CHOOSE k \in 1..Len(s) : s[k] = x /\ \A j \in 1..(k - 1) : s[j] # x) - 1
    ELSE -1

----------------------------------------------------------------------------
(* Entities and call arguments *)

Sys(kind, id) == [kind |-> kind, id |-> id]

\* RodBase and RigidBodyBase instances a user can build, an object of a
\* foreign type, and a rod whose REQUISITE_MODULES the simulator class lacks
RodA == Sys("rod", 1)
RodB == Sys("rod", 2)
Rigid == Sys("rigid", 1)
Alien == Sys("alien", 1)
Needy == Sys("needy", 1)
UserSystems == {RodA, Rigid, Alien, Needy}

\* subclasses of RodBase and of RigidBodyBase; the memory blocks are
\* subclasses of the systems they aggregate
RodLike == {"rod", "needy", "rodblock"}
RigidLike == {"rigid", "rigidblock"}

\* allowed_sys_types = (RodBase, RigidBodyBase, SurfaceBase)
allowed_sys_types == RodLike \cup RigidLike \cup {"surface"}

\* an argument that is either an int or a system object
IntArg(i) == [tag |-> "int", int |-> i, sys |-> Sys("none", 0)]
SysArg(s) == [tag |-> "sys", int |-> 0, sys |-> s]

----------------------------------------------------------------------------
(* The exceptions of the program, by the statement that raises them *)

E_TYPE == "TypeError: is not a system passing validity checks"
E_REQUISITE == "RuntimeError: requires the following modules"
E_RANGE == "AssertionError: Rod index exceeds number of registered rodtems"
E_LOOKUP == "ValueError: Rod was not found, did you append it to the system?"
E_TWICE == "AssertionError: The finalize cannot be called twice."
E_INDEX == "IndexError: list index out of range"
E_NO_USING == "RuntimeError: No contacts provided. Did you forget to call the using method?"
E_CONSTRUCT == "TypeError: Unable to construct contact class."
E_NOT_CONTACT == "AssertionError: is not a valid contact class"
E_NO_CONTACTS == "AttributeError: object has no attribute _contacts"
E_VALIDITY == "TypeError: systems rejected by _check_systems_validity"
E_STEPS == "AssertionError: len(_steps) == 2 * len(_prefactors) - 1"
E_NONE_TIME == "TypeError: unsupported operand type(s) for +=: float and NoneType"
E_OPERATOR == "Exception raised by an operator called in do_step"

----------------------------------------------------------------------------
(* BaseSystemCollection: validity checks *)

\* _check_type without the test of REQUISITE_MODULES
_check_type_without_requisites(sys) ==
    IF sys.kind \notin allowed_sys_types THEN E_TYPE ELSE "none"

\* _check_type: the exception raised, or "none" when the method returns True
_check_type(sys) ==
    IF sys.kind \notin allowed_sys_types THEN E_TYPE
    ELSE IF sys.kind = "needy" THEN E_REQUISITE
    ELSE "none"

\* _get_sys_idx_if_valid with the range assertion 0 <= index < n_systems
_get_sys_idx_if_valid_from_zero(syss, sys_to_be_added) ==
    IF sys_to_be_added.tag = "int"
    THEN IF 0 <= sys_to_be_added.int /\ sys_to_be_added.int < Len(syss)
         THEN [err |-> "none", idx |-> sys_to_be_added.int]
         ELSE [err |-> E_RANGE, idx |-> 0]
    ELSE IF _check_type(sys_to_be_added.sys) # "none"
         THEN [err |-> _check_type(sys_to_be_added.sys), idx |-> 0]
         ELSE IF ListIndex(syss, sys_to_be_added.sys) < 0
              THEN [err |-> E_LOOKUP, idx |-> 0]
              ELSE [err |-> "none", idx |-> ListIndex(syss, sys_to_be_added.sys)]

\* _get_sys_idx_if_valid: [err, idx]
_get_sys_idx_if_valid(syss, sys_to_be_added) ==
    IF sys_to_be_added.tag = "int"
    THEN IF InRange(syss, sys_to_be_added.int)
         THEN [err |-> "none", idx |-> sys_to_be_added.int]
         ELSE [err |-> E_RANGE, idx |-> 0]
    ELSE IF _check_type(sys_to_be_added.sys) # "none"
         THEN [err |-> _check_type(sys_to_be_added.sys), idx |-> 0]
         ELSE IF ListIndex(syss, sys_to_be_added.sys) < 0
              THEN [err |-> E_LOOKUP, idx |-> 0]
              ELSE [err |-> "none", idx |-> ListIndex(syss, sys_to_be_added.sys)]

----------------------------------------------------------------------------
(* OperatorGroupFIFO: a sequence of slots [owner, ops]; a slot is created  *)
(* for an owner by append_id and filled by add_operators                   *)

append_id(group, owner) == Append(group, [owner |-> owner, ops |-> <<>>])

SlotOf(group, owner) ==
    CHOOSE k \in 1..Len(group) :
        group[k].owner = owner /\ \A j \in 1..(k - 1) : group[j].owner # owner

add_operators(group, owner, operators) ==
    [group EXCEPT ![SlotOf(group, owner)].ops = @ \o operators]

is_last(group, owner) == group[Len(group)].owner = owner

RECURSIVE Operators(_)
\* iteration over the group: the operators of all slots, in slot order
Operators(group) ==
    IF group = <<>> THEN <<>> ELSE Head(group).ops \o Operators(Tail(group))

----------------------------------------------------------------------------
(* Contact module: declarations and their finalize-time binding *)

\* _Contact.__init__: the declaration object; id is the identity of the object
_Contact(id, first_sys_idx, second_sys_idx) ==
    [id |-> id, first_sys_idx |-> first_sys_idx, second_sys_idx |-> second_sys_idx,
     contact_cls |-> "None", args |-> "none"]

\* classes a user may hand to using(): a subclass of NoContact, and a class
\* that is not one
ContactClasses == {"RodContact", "NotAContact"}
issubclass_NoContact(contact_cls) == contact_cls = "RodContact"

\* constructor arguments handed to using(): complete, or rejected by the
\* constructor of the contact class
ContactArgs == {"ok", "bad"}

\* instantiate without the check that using() was called
instantiate_silent(contact) ==
    IF contact.args = "bad" THEN E_CONSTRUCT ELSE "none"

\* _Contact.instantiate: the exception raised, or "none"
instantiate(contact) ==
    IF contact.contact_cls = "None" THEN E_NO_USING
    ELSE IF contact.args = "bad" THEN E_CONSTRUCT
    ELSE "none"

\* NoContact._check_systems_validity of the contact class: a rod contact
\* accepts rod-like systems only
_check_systems_validity(system_one, system_two) ==
    IF system_one.kind \in RodLike /\ system_two.kind \in RodLike
    THEN "none" ELSE E_VALIDITY

\* functools.partial(apply_contact, ...): the closure bound into synchronize
ContactClosure(contact) ==
    [kind |-> "contact", owner |-> contact.id,
     first_sys_idx |-> contact.first_sys_idx,
     second_sys_idx |-> contact.second_sys_idx]

\* isinstance(contact._contact_cls, NoContact): _contact_cls holds the class
\* handed to using(), and a class object is not an instance of NoContact
isinstance_NoContact(contact_cls) == FALSE

\* Contact.warnings: the warning log after the call
warnings(group, contact, log) ==
    IF ~is_last(group, contact.id) /\ isinstance_NoContact(contact.contact_cls)
    THEN Append(log, contact.id)
    ELSE log

\* the loop body appending the closure at the end of synchronize instead of
\* filling the slot of the declaration
finalize_one_contact_appending(syss, contact, st) ==
    IF instantiate(contact) # "none"
    THEN [st EXCEPT !.err = instantiate(contact)]
    ELSE IF ~InRange(syss, contact.first_sys_idx) \/ ~InRange(syss, contact.second_sys_idx)
    THEN [st EXCEPT !.err = E_INDEX]
    ELSE IF _check_systems_validity(At(syss, contact.first_sys_idx),
                                    At(syss, contact.second_sys_idx)) # "none"
    THEN [st EXCEPT !.err = E_VALIDITY]
    ELSE [st EXCEPT !.group = Append(st.group,
                        [owner |-> contact.id, ops |-> <<ContactClosure(contact)>>])]

\* one iteration of the loop of _finalize_contact over self._contacts, on the
\* state st = [err, group, contacts, forcings, log]
finalize_one_contact(syss, contact, st) ==
    IF instantiate(contact) # "none"
    THEN [st EXCEPT !.err = instantiate(contact)]
    ELSE IF ~InRange(syss, contact.first_sys_idx) \/ ~InRange(syss, contact.second_sys_idx)
    THEN [st EXCEPT !.err = E_INDEX]
    ELSE IF _check_systems_validity(At(syss, contact.first_sys_idx),
                                    At(syss, contact.second_sys_idx)) # "none"
    THEN [st EXCEPT !.err = E_VALIDITY]
    ELSE LET g == add_operators(st.group, contact.id, <<ContactClosure(contact)>>)
         IN  [st EXCEPT !.group = g, !.log = warnings(g, contact, st.log)]

RECURSIVE finalize_contact_loop(_, _, _)
finalize_contact_loop(syss, todo, st) ==
    IF todo = <<>> \/ st.err # "none" THEN st
    ELSE finalize_contact_loop(syss, Tail(todo), finalize_one_contact(syss, Head(todo), st))

\* Contact._finalize_contact
_finalize_contact(syss, st) ==
    IF st.contacts.deleted THEN [st EXCEPT !.err = E_NO_CONTACTS]
    ELSE LET r == finalize_contact_loop(syss, st.contacts.list, st)
         IN  IF r.err # "none" THEN r
             ELSE [r EXCEPT !.contacts = [deleted |-> TRUE, list |-> <<>>]]

----------------------------------------------------------------------------
(* Forcing module: another contributor to synchronize, with the same       *)
(* declare-then-materialize pattern                                        *)

ForcingClosure(forcing) ==
    [kind |-> "forcing", owner |-> forcing.id,
     first_sys_idx |-> forcing.sys_idx, second_sys_idx |-> forcing.sys_idx]

RECURSIVE finalize_forcing_loop(_, _)
finalize_forcing_loop(todo, group) ==
    IF todo = <<>> THEN group
    ELSE finalize_forcing_loop(Tail(todo),
             add_operators(group, Head(todo).id, <<ForcingClosure(Head(todo))>>))

_finalize_forcing(syss, st) ==
    [st EXCEPT !.group = finalize_forcing_loop(st.forcings, st.group),
               !.forcings = <<>>]

----------------------------------------------------------------------------
(* BaseSystemCollection.finalize *)

\* construct_memory_block_structures: one block for the rod-like systems and
\* one for the rigid bodies, when there are any; id tells the blocks of one
\* call from those of another
construct_memory_block_structures(syss, id) ==
    LET rods == \E k \in 1..Len(syss) : syss[k].kind \in RodLike
        rigids == \E k \in 1..Len(syss) : syss[k].kind \in RigidLike
    IN  (IF rods THEN <<Sys("rodblock", id)>> ELSE <<>>)
        \o (IF rigids THEN <<Sys("rigidblock", id)>> ELSE <<>>)

\* a statement of finalize, with the length of the entity sequence when it
\* is executed
Did(what, n) == [what |-> what, n_systems |-> n]

\* the call of one operator of _feature_group_finalize
finalize_op(name, syss, st) ==
    LET called == [st EXCEPT !.trace = Append(@, Did(name, Len(syss)))]
    IN  IF name = "_finalize_contact" THEN _finalize_contact(syss, called)
        ELSE _finalize_forcing(syss, called)

RECURSIVE finalize_ops_loop(_, _, _)
\* for finalize in self._feature_group_finalize: finalize()
finalize_ops_loop(ops, syss, st) ==
    IF ops = <<>> \/ st.err # "none" THEN st
    ELSE finalize_ops_loop(Tail(ops), syss, finalize_op(Head(ops), syss, st))

----------------------------------------------------------------------------
(* Calls a user makes on the simulator before and after finalize *)

Called(op, e, r) ==
    /\ call' = op
    /\ err' = e
    /\ ret' = r

\* number of systems in the sequence that the user put there
UserCount(syss) == Cardinality({k \in 1..Len(syss) : syss[k].kind \notin {"rodblock", "rigidblock"}})

\* BaseSystemCollection.insert
insert(idx, system) ==
    /\ pc = "idle"
    /\ n_mutations < MaxMutations
    /\ n_mutations' = n_mutations + 1
    /\ Called("insert", _check_type(system), 0)
    /\ systems' = IF _check_type(system) = "none"
                  THEN ListInsert(systems, idx, system) ELSE systems
    /\ UNCHANGED <<memory_blocks, finalize_flag, feature_group_finalize,
                   feature_group_synchronize, contacts, forcings, warning_log,
                   finalize_log, n_aggregate, n_declared, designated, stepping>>

\* MutableSequence.append: self.insert(len(self), value)
append(system) ==
    /\ pc = "idle"
    /\ UserCount(systems) < MaxSystems
    /\ Called("append", _check_type(system), 0)
    /\ systems' = IF _check_type(system) = "none"
                  THEN ListInsert(systems, Len(systems), system) ELSE systems
    /\ UNCHANGED <<memory_blocks, finalize_flag, feature_group_finalize,
                   feature_group_synchronize, contacts, forcings, warning_log,
                   finalize_log, n_aggregate, n_declared, designated, n_mutations, stepping>>

\* BaseSystemCollection.__setitem__
__setitem__(idx, system) ==
    /\ pc = "idle"
    /\ n_mutations < MaxMutations
    /\ n_mutations' = n_mutations + 1
    /\ LET e == IF _check_type(system) # "none" THEN _check_type(system)
                ELSE IF ~InRange(systems, idx) THEN E_INDEX ELSE "none"
       IN  /\ Called("__setitem__", e, 0)
           /\ systems' = IF e = "none" THEN ListSet(systems, idx, system) ELSE systems
    /\ UNCHANGED <<memory_blocks, finalize_flag, feature_group_finalize,
                   feature_group_synchronize, contacts, forcings, warning_log,
                   finalize_log, n_aggregate, n_declared, designated, stepping>>

\* BaseSystemCollection.__delitem__
__delitem__(idx) ==
    /\ pc = "idle"
    /\ n_mutations < MaxMutations
    /\ n_mutations' = n_mutations + 1
    /\ LET e == IF ~InRange(systems, idx) THEN E_INDEX ELSE "none"
       IN  /\ Called("__delitem__", e, 0)
           /\ systems' = IF e = "none" THEN ListDel(systems, idx) ELSE systems
    /\ UNCHANGED <<memory_blocks, finalize_flag, feature_group_finalize,
                   feature_group_synchronize, contacts, forcings, warning_log,
                   finalize_log, n_aggregate, n_declared, designated, stepping>>

\* a call of BaseSystemCollection._get_sys_idx_if_valid
resolve_index(sys_to_be_added) ==
    /\ pc = "idle"
    /\ LET r == _get_sys_idx_if_valid(systems, sys_to_be_added)
       IN  Called("_get_sys_idx_if_valid", r.err, r.idx)
    /\ UNCHANGED <<registry, stepping>>

\* Contact.detect_contact_between
detect_contact_between(first_system, second_system) ==
    /\ pc = "idle"
    /\ Len(contacts.list) < MaxContacts
    /\ LET r1 == _get_sys_idx_if_valid(systems, first_system)
           r2 == _get_sys_idx_if_valid(systems, second_system)
           e == IF r1.err # "none" THEN r1.err
                ELSE IF r2.err # "none" THEN r2.err
                ELSE IF contacts.deleted THEN E_NO_CONTACTS
                ELSE "none"
           _contact == _Contact(n_declared + 1, r1.idx, r2.idx)
       IN  /\ Called("detect_contact_between", e, 0)
           /\ IF e = "none"
              THEN /\ contacts' = [contacts EXCEPT !.list = Append(@, _contact)]
                   /\ feature_group_synchronize' =
                          append_id(feature_group_synchronize, _contact.id)
                   /\ n_declared' = n_declared + 1
                   /\ designated' = Append(designated, <<At(systems, r1.idx),
                                                          At(systems, r2.idx)>>)
              ELSE UNCHANGED <<contacts, feature_group_synchronize, n_declared, designated>>
    /\ UNCHANGED <<systems, memory_blocks, finalize_flag, feature_group_finalize,
                   forcings, warning_log, finalize_log, n_aggregate, n_mutations,
                   stepping>>

\* using without the assertion on the contact class
using_unchecked(k, contact_cls, args) ==
    /\ pc = "idle"
    /\ k \in 1..Len(contacts.list)
    /\ Called("using", "none", contacts.list[k].id)
    /\ contacts' = [contacts EXCEPT !.list[k].contact_cls = contact_cls,
                                    !.list[k].args = args]
    /\ UNCHANGED <<systems, memory_blocks, finalize_flag, feature_group_finalize,
                   feature_group_synchronize, forcings, warning_log, finalize_log,
                   n_aggregate, n_declared, designated, n_mutations, stepping>>

\* _Contact.using, called on the handle of the k-th pending declaration; it
\* returns the handle, which its id stands for
using(k, contact_cls, args) ==
    /\ pc = "idle"
    /\ k \in 1..Len(contacts.list)
    /\ LET e == IF issubclass_NoContact(contact_cls) THEN "none" ELSE E_NOT_CONTACT
       IN  /\ Called("using", e, IF e = "none" THEN contacts.list[k].id ELSE 0)
           /\ contacts' = IF e = "none"
                          THEN [contacts EXCEPT !.list[k].contact_cls = contact_cls,
                                                !.list[k].args = args]
                          ELSE contacts
    /\ UNCHANGED <<systems, memory_blocks, finalize_flag, feature_group_finalize,
                   feature_group_synchronize, forcings, warning_log, finalize_log,
                   n_aggregate, n_declared, designated, n_mutations, stepping>>

\* Forcing.add_forcing_to(system).using(...): a declaration of the forcing
\* module takes its place in synchronize
add_forcing_to(system) ==
    /\ pc = "idle"
    /\ ~finalize_flag
    /\ Len(forcings) < MaxForcings
    /\ LET r == _get_sys_idx_if_valid(systems, system)
       IN  /\ Called("add_forcing_to", r.err, 0)
           /\ IF r.err = "none"
              THEN /\ forcings' = Append(forcings, [id |-> n_declared + 1, sys_idx |-> r.idx])
                   /\ feature_group_synchronize' =
                          append_id(feature_group_synchronize, n_declared + 1)
                   /\ n_declared' = n_declared + 1
                   /\ designated' = Append(designated, <<At(systems, r.idx),
                                                          At(systems, r.idx)>>)
              ELSE UNCHANGED <<forcings, feature_group_synchronize, n_declared, designated>>
    /\ UNCHANGED <<systems, memory_blocks, finalize_flag, feature_group_finalize,
                   contacts, warning_log, finalize_log, n_aggregate, n_mutations,
                   stepping>>

\* the body of finalize with the finalize operators called before the
\* blocks are built and appended
finalize_body_operators_first ==
    LET st == finalize_ops_loop(feature_group_finalize.ops, systems,
                  [err |-> "none", group |-> feature_group_synchronize,
                   contacts |-> contacts, forcings |-> forcings,
                   log |-> warning_log, trace |-> finalize_log])
        blks == construct_memory_block_structures(systems, n_aggregate + 1)
        syss == systems \o blks
        n == Len(systems)
    IN  /\ Called("finalize", st.err, 0)
        /\ memory_blocks' = IF st.err = "none" THEN blks ELSE memory_blocks
        /\ n_aggregate' = IF st.err = "none" THEN n_aggregate + 1 ELSE n_aggregate
        /\ systems' = IF st.err = "none" THEN syss ELSE systems
        /\ feature_group_synchronize' = st.group
        /\ contacts' = st.contacts
        /\ forcings' = st.forcings
        /\ warning_log' = st.log
        /\ finalize_log' =
               IF st.err # "none" THEN st.trace
               ELSE st.trace \o <<Did("aggregate", n)>>
                        \o [k \in 1..Len(blks) |-> Did("append", n + k)]
                        \o <<Did("clear", Len(syss)), Did("discard", Len(syss)),
                              Did("set_flag", Len(syss))>>
        /\ feature_group_finalize' =
               IF st.err = "none" THEN [none |-> TRUE, ops |-> <<>>]
               ELSE feature_group_finalize
        /\ finalize_flag' = (st.err = "none")
        /\ UNCHANGED <<n_declared, designated, n_mutations>>

\* the body of finalize past its assertion
finalize_body ==
    LET blks == construct_memory_block_structures(systems, n_aggregate + 1)
        syss == systems \o blks
        n == Len(systems)
        st == finalize_ops_loop(feature_group_finalize.ops, syss,
                  [err |-> "none", group |-> feature_group_synchronize,
                   contacts |-> contacts, forcings |-> forcings,
                   log |-> warning_log,
                   trace |-> finalize_log \o <<Did("aggregate", n)>>
                                 \o [k \in 1..Len(blks) |-> Did("append", n + k)]])
    IN  /\ Called("finalize", st.err, 0)
        /\ memory_blocks' = blks
        /\ n_aggregate' = n_aggregate + 1
        /\ systems' = syss
        /\ feature_group_synchronize' = st.group
        /\ contacts' = st.contacts
        /\ forcings' = st.forcings
        /\ warning_log' = st.log
        /\ finalize_log' =
               IF st.err # "none" THEN st.trace
               ELSE st.trace \o <<Did("clear", Len(syss)), Did("discard", Len(syss)),
                                  Did("set_flag", Len(syss))>>
        /\ feature_group_finalize' =
               IF st.err = "none" THEN [none |-> TRUE, ops |-> <<>>]
               ELSE feature_group_finalize
        /\ finalize_flag' = (st.err = "none")
        /\ UNCHANGED <<n_declared, designated, n_mutations>>

\* finalize without the assertion on _finalize_flag
finalize_unguarded ==
    /\ pc = "idle"
    /\ finalize_flag \/ n_aggregate < MaxFinalize
    /\ finalize_body
    /\ UNCHANGED stepping

\* BaseSystemCollection.finalize
finalize ==
    /\ pc = "idle"
    /\ finalize_flag \/ n_aggregate < MaxFinalize
    /\ IF finalize_flag
       THEN /\ Called("finalize", E_TWICE, 0)
            /\ UNCHANGED registry
       ELSE finalize_body
    /\ UNCHANGED stepping

----------------------------------------------------------------------------
(* Floating point numbers of the steppers.  A time or a prefactor is an     *)
(* integer number of units (the spacing of representable values); a         *)
(* coefficient c stands for c / ONE.  A product coefficient * dt is rounded  *)
(* to the nearest representable value, ties to even, as the float product.  *)

ONE == 1000000
HALF == 500000
xi_coeff == 178618
lambda_coeff == -212342
chi_coeff == -66265

RoundDiv(a, b) ==
    LET q == a \div b
        r == a % b
    IN  IF 2 * r < b THEN q
        ELSE IF 2 * r > b THEN q + 1
        ELSE IF q % 2 = 0 THEN q ELSE q + 1

Mul(coeff, x) == RoundDiv(coeff * x, ONE)

\* PEFRL.lambda_dash_coeff
lambda_dash_coeff == (ONE - 2 * lambda_coeff) \div 2

\* xi_chi_dash_coeff with the factor 2.0 left out
xi_chi_dash_coeff_unbalanced == ONE - (xi_coeff + chi_coeff)

\* PEFRL.xi_chi_dash_coeff
xi_chi_dash_coeff == ONE - 2 * (xi_coeff + chi_coeff)

----------------------------------------------------------------------------
(* SymplecticStepperMixin.step_methods *)

Variants == {"PositionVerlet", "PEFRL"}

get_steps(variant) ==
    IF variant = "PositionVerlet"
    THEN <<"_first_kinematic_step", "_first_dynamic_step">>
    ELSE <<"_first_kinematic_step", "_first_dynamic_step",
           "_second_kinematic_step", "_second_dynamic_step",
           "_third_kinematic_step">>

get_prefactors(variant) ==
    IF variant = "PositionVerlet"
    THEN <<"_first_prefactor">>
    ELSE <<"_first_kinematic_prefactor", "_second_kinematic_prefactor",
           "_third_kinematic_prefactor">>

\* the slice s[:-1]: the head of the list, not reversed
MirrorTail_unreversed(s) ==
    IF Len(s) < 2 THEN <<>>
    ELSE [k \in 1..(Len(s) - 1) |-> s[k]]

\* the slice s[-2::-1]: from the last but one element down to the first
MirrorTail(s) ==
    IF Len(s) < 2 THEN <<>>
    ELSE [k \in 1..(Len(s) - 1) |-> s[Len(s) - k]]

\* the slices s[::2] and s[1::2]
EvenSlice(s) == [k \in 1..((Len(s) + 1) \div 2) |-> s[2 * k - 1]]
OddSlice(s) == [k \in 1..(Len(s) \div 2) |-> s[2 * k]]

Max3(a, b, c) ==
    IF a >= b /\ a >= c THEN a ELSE IF b >= c THEN b ELSE c

Min3(a, b, c) ==
    IF a <= b /\ a <= c THEN a ELSE IF b <= c THEN b ELSE c

\* tuple(zip(a, b, c)): the triples up to the end of the shortest argument
zip_shortest(a, b, c, fill) ==
    [k \in 1..Min3(Len(a), Len(b), Len(c)) |-> <<a[k], b[k], c[k]>>]

\* tuple(zip_longest(a, b, c, fillvalue=fill)): triples <<prefactor, kin, dyn>>
zip_longest(a, b, c, fill) ==
    [k \in 1..Max3(Len(a), Len(b), Len(c)) |->
        <<IF k <= Len(a) THEN a[k] ELSE fill,
          IF k <= Len(b) THEN b[k] ELSE fill,
          IF k <= Len(c) THEN c[k] ELSE fill>>]

\* step_methods: [err, stages]
step_methods(variant) ==
    LET _steps == get_steps(variant) \o MirrorTail(get_steps(variant))
        _prefactors == get_prefactors(variant) \o MirrorTail(get_prefactors(variant))
    IN  IF Len(_steps) # 2 * Len(_prefactors) - 1
        THEN [err |-> E_STEPS, stages |-> <<>>]
        ELSE [err |-> "none",
              stages |-> zip_longest(_prefactors, EvenSlice(_steps),
                                     OddSlice(_steps), "no_operation")]

\* n_stages
n_stages(st) == Len(st.steps_and_prefactors)

----------------------------------------------------------------------------
(* The operators of the two steppers *)

\* the coefficient a prefactor method multiplies dt with
Coefficient(variant, name) ==
    IF variant = "PositionVerlet" THEN HALF
    ELSE IF name = "_first_kinematic_prefactor" THEN xi_coeff
    ELSE IF name = "_second_kinematic_prefactor" THEN chi_coeff
    ELSE xi_chi_dash_coeff

\* the prefactor methods: prefactor(dt)
Prefactor(variant, name, d) == Mul(Coefficient(variant, name), d)

\* the prefactor a kinematic step computes for itself
KinematicPrefactor(variant, name, d) ==
    IF variant = "PositionVerlet" THEN Mul(HALF, d)
    ELSE IF name = "_first_kinematic_step" THEN Mul(xi_coeff, d)
    ELSE IF name = "_second_kinematic_step" THEN Mul(chi_coeff, d)
    ELSE Mul(xi_chi_dash_coeff, d)

\* the prefactor a dynamic step hands to dynamic_rates
DynamicPrefactor(variant, name, d) ==
    IF variant = "PositionVerlet" THEN d
    ELSE IF name = "_first_dynamic_step" THEN Mul(lambda_dash_coeff, d)
    ELSE Mul(lambda_coeff, d)

\* overload_operator_kinematic_numba: position += prefac * velocity
kinematic_step(variant, name, d, block) ==
    IF name = "no_operation" THEN block
    ELSE [block EXCEPT !.pos = @ + KinematicPrefactor(variant, name, d) * block.vel]

\* overload_operator_dynamic_numba(rates, dynamic_rates(time, prefac)):
\* velocity += prefac * acceleration, for a block of unit mass without
\* internal forces
dynamic_step(variant, name, d, block) ==
    IF name = "no_operation" THEN block
    ELSE [block EXCEPT !.vel = @ + DynamicPrefactor(variant, name, d) * block.ext]

----------------------------------------------------------------------------
(* The feature groups as the stepper calls them *)

\* BaseSystemCollection.synchronize: every operator of the group, in order;
\* a forcing or contact operator adds one unit of external force to the
\* systems it acts on, which live in the blocks
synchronize(group, blks) ==
    [b \in DOMAIN blks |-> [blks[b] EXCEPT !.ext = @ + Len(Operators(group))]]

\* BaseSystemCollection.constrain_values: a constraint pins the position of
\* its block
constrain_values(ops, blks) ==
    [b \in DOMAIN blks |->
        IF \E k \in 1..Len(ops) : ops[k].blk = b
        THEN [blks[b] EXCEPT !.pos = 0] ELSE blks[b]]

\* BaseSystemCollection.constrain_rates: a constraint zeroes the velocity of
\* its block
constrain_rates(ops, blks) ==
    [b \in DOMAIN blks |->
        IF \E k \in 1..Len(ops) : ops[k].blk = b
        THEN [blks[b] EXCEPT !.vel = 0] ELSE blks[b]]

RECURSIVE SumPush(_)
SumPush(ops) == IF ops = <<>> THEN 0 ELSE Head(ops).push + SumPush(Tail(ops))

\* BaseSystemCollection.apply_callbacks: every callback, in order; a callback
\* may leave external force on the blocks
apply_callbacks(ops, blks) ==
    [b \in DOMAIN blks |-> [blks[b] EXCEPT !.ext = @ + SumPush(ops)]]

\* for func in self._feature_group_callback: func(time=time,
\* current_step=current_step): the invocations, each with its arguments and
\* with the number of operations the step had performed before
callback_invocations(ops, t, current_step, performed) ==
    [k \in 1..Len(ops) |->
        [id |-> ops[k].id, time |-> t, current_step |-> current_step,
         after |-> performed]]

\* reset_external_forces_and_torques of a block
reset_external_forces_and_torques(block) == [block EXCEPT !.ext = 0]

----------------------------------------------------------------------------
(* The time stepper: construction and do_step *)

Entry(op, stg, blk, t) == [op |-> op, stage |-> stg, blk |-> blk, time |-> t]

\* the entries one loop over SystemCollection._memory_blocks adds to the log
BlockEntries(op, stg, t) ==
    [b \in 1..Len(memory_blocks) |-> Entry(op, stg, b, t)]

Stage(k) == stepper.steps_and_prefactors[k]

\* timestepper = PositionVerlet() or PEFRL(): SymplecticStepperMixin.__init__
construct(variant) ==
    /\ pc = "idle"
    /\ stepper.variant = "none"
    /\ LET r == step_methods(variant)
       IN  /\ Called("construct", r.err, 0)
           /\ stepper' = [variant |-> variant, built |-> (r.err = "none"),
                          steps_and_prefactors |-> r.stages]
    /\ UNCHANGED <<registry, blocks, constrain_ops, callback_ops, callback_log, time, dt, time0,
                   stage, pc, oplog, n_steps>>

\* step(SystemCollection, time, dt): entry into do_step
step ==
    /\ pc = "idle"
    /\ stepper.built
    /\ n_steps < MaxSteps
    /\ Called("step", "none", 0)
    /\ time0' = time
    /\ blocks' = [b \in DOMAIN blocks |->
                     [blocks[b] EXCEPT !.pos0 = blocks[b].pos, !.vel0 = blocks[b].vel]]
    /\ oplog' = <<>>
    /\ stage' = 1
    /\ pc' = IF n_stages(stepper) > 1 THEN "kin" ELSE "last_kin"
    /\ n_steps' = n_steps + 1
    /\ callback_log' = <<>>
    /\ UNCHANGED <<registry, stepper, constrain_ops, callback_ops, time, dt>>

\* for system in _memory_blocks: kin_step(TimeStepper, system, time, dt)
do_step_kinematic ==
    /\ pc = "kin"
    /\ blocks' = [b \in DOMAIN blocks |->
                     kinematic_step(stepper.variant, Stage(stage)[2], dt, blocks[b])]
    /\ oplog' = oplog \o BlockEntries("kinematic", stage, time)
    /\ pc' = "adv"
    /\ UNCHANGED <<registry, call, err, ret, stepper, constrain_ops, callback_ops, callback_log,
                   time, dt, time0, stage, n_steps>>

\* the time advanced by the whole dt in every stage
do_step_advance_by_dt ==
    /\ pc = "adv"
    /\ IF Stage(stage)[1] = "no_operation"
       THEN /\ err' = E_NONE_TIME
            /\ pc' = "idle"
            /\ UNCHANGED <<time, oplog>>
       ELSE /\ time' = time + dt
            /\ oplog' = Append(oplog, Entry("advance", stage, 0, time'))
            /\ pc' = "cv"
            /\ UNCHANGED err
    /\ UNCHANGED <<registry, call, ret, stepper, blocks, constrain_ops, callback_ops, callback_log,
                   dt, time0, stage, n_steps>>

\* time += kin_prefactor(TimeStepper, dt)
do_step_advance ==
    /\ pc = "adv"
    /\ IF Stage(stage)[1] = "no_operation"
       THEN /\ err' = E_NONE_TIME
            /\ pc' = "idle"
            /\ UNCHANGED <<time, oplog>>
       ELSE /\ time' = time + Prefactor(stepper.variant, Stage(stage)[1], dt)
            /\ oplog' = Append(oplog, Entry("advance", stage, 0, time'))
            /\ pc' = "cv"
            /\ UNCHANGED err
    /\ UNCHANGED <<registry, call, ret, stepper, blocks, constrain_ops, callback_ops, callback_log,
                   dt, time0, stage, n_steps>>

\* SystemCollection.constrain_values(time)
do_step_constrain_values ==
    /\ pc = "cv"
    /\ blocks' = constrain_values(constrain_ops, blocks)
    /\ oplog' = Append(oplog, Entry("constrain_values", stage, 0, time))
    /\ pc' = "uif"
    /\ UNCHANGED <<registry, call, err, ret, stepper, constrain_ops, callback_ops, callback_log,
                   time, dt, time0, stage, n_steps>>

\* for system in _memory_blocks: system.update_internal_forces_and_torques(time)
do_step_update_internal ==
    /\ pc = "uif"
    /\ oplog' = oplog \o BlockEntries("update_internal_forces_and_torques", stage, time)
    /\ pc' = "sync"
    /\ UNCHANGED <<registry, call, err, ret, stepper, blocks, constrain_ops,
                   callback_ops, callback_log, time, dt, time0, stage, n_steps>>

\* SystemCollection.synchronize(time)
do_step_synchronize ==
    /\ pc = "sync"
    /\ blocks' = synchronize(feature_group_synchronize, blocks)
    /\ oplog' = Append(oplog, Entry("synchronize", stage, 0, time))
    /\ pc' = "dyn"
    /\ UNCHANGED <<registry, call, err, ret, stepper, constrain_ops, callback_ops, callback_log,
                   time, dt, time0, stage, n_steps>>

\* for system in _memory_blocks: dyn_step(TimeStepper, system, time, dt)
do_step_dynamic ==
    /\ pc = "dyn"
    /\ blocks' = [b \in DOMAIN blocks |->
                     dynamic_step(stepper.variant, Stage(stage)[3], dt, blocks[b])]
    /\ oplog' = oplog \o BlockEntries("dynamic", stage, time)
    /\ pc' = "cr"
    /\ UNCHANGED <<registry, call, err, ret, stepper, constrain_ops, callback_ops, callback_log,
                   time, dt, time0, stage, n_steps>>

\* the loop running over all of steps_and_prefactors instead of [:-1]
do_step_constrain_rates_all_stages ==
    /\ pc = "cr"
    /\ blocks' = constrain_rates(constrain_ops, blocks)
    /\ oplog' = Append(oplog, Entry("constrain_rates", stage, 0, time))
    /\ stage' = stage + 1
    /\ pc' = IF stage + 1 <= n_stages(stepper) THEN "kin" ELSE "last_kin"
    /\ UNCHANGED <<registry, call, err, ret, stepper, constrain_ops, callback_ops, callback_log,
                   time, dt, time0, n_steps>>

\* SystemCollection.constrain_rates(time), the end of one pass of the loop
\* over steps_and_prefactors[:-1]
do_step_constrain_rates ==
    /\ pc = "cr"
    /\ blocks' = constrain_rates(constrain_ops, blocks)
    /\ oplog' = Append(oplog, Entry("constrain_rates", stage, 0, time))
    /\ stage' = stage + 1
    /\ pc' = IF stage + 1 < n_stages(stepper) THEN "kin" ELSE "last_kin"
    /\ UNCHANGED <<registry, call, err, ret, stepper, constrain_ops, callback_ops, callback_log,
                   time, dt, time0, n_steps>>

\* for system in _memory_blocks: last_kin_step(TimeStepper, system, time, dt)
do_step_last_kinematic ==
    /\ pc = "last_kin"
    /\ blocks' = [b \in DOMAIN blocks |->
                     kinematic_step(stepper.variant, Stage(n_stages(stepper))[2],
                                    dt, blocks[b])]
    /\ oplog' = oplog \o BlockEntries("kinematic", n_stages(stepper), time)
    /\ pc' = "last_adv"
    /\ UNCHANGED <<registry, call, err, ret, stepper, constrain_ops, callback_ops, callback_log,
                   time, dt, time0, stage, n_steps>>

\* time += last_kin_prefactor(TimeStepper, dt)
do_step_last_advance ==
    /\ pc = "last_adv"
    /\ IF Stage(n_stages(stepper))[1] = "no_operation"
       THEN /\ err' = E_NONE_TIME
            /\ pc' = "idle"
            /\ UNCHANGED <<time, oplog>>
       ELSE /\ time' = time + Prefactor(stepper.variant, Stage(n_stages(stepper))[1], dt)
            /\ oplog' = Append(oplog, Entry("advance", n_stages(stepper), 0, time'))
            /\ pc' = "last_cv"
            /\ UNCHANGED err
    /\ UNCHANGED <<registry, call, ret, stepper, blocks, constrain_ops, callback_ops, callback_log,
                   dt, time0, stage, n_steps>>

\* SystemCollection.constrain_values(time) of the last stage
do_step_last_constrain_values ==
    /\ pc = "last_cv"
    /\ blocks' = constrain_values(constrain_ops, blocks)
    /\ oplog' = Append(oplog, Entry("constrain_values", n_stages(stepper), 0, time))
    /\ pc' = "cb"
    /\ UNCHANGED <<registry, call, err, ret, stepper, constrain_ops, callback_ops, callback_log,
                   time, dt, time0, stage, n_steps>>

\* apply_callbacks called with the time and the step number of the start
\* of the step
do_step_apply_callbacks_stale_time ==
    /\ pc = "cb"
    /\ blocks' = apply_callbacks(callback_ops, blocks)
    /\ oplog' = Append(oplog, Entry("apply_callbacks", n_stages(stepper), 0, time0))
    /\ callback_log' = callback_invocations(callback_ops, time0, RoundDiv(time0, dt),
                                            Len(oplog))
    /\ pc' = "reset"
    /\ UNCHANGED <<registry, call, err, ret, stepper, constrain_ops, callback_ops,
                   time, dt, time0, stage, n_steps>>

\* SystemCollection.apply_callbacks(time, round(time / dt))
do_step_apply_callbacks ==
    /\ pc = "cb"
    /\ blocks' = apply_callbacks(callback_ops, blocks)
    /\ oplog' = Append(oplog, Entry("apply_callbacks", n_stages(stepper), 0, time))
    /\ callback_log' = callback_invocations(callback_ops, time, RoundDiv(time, dt),
                                            Len(oplog))
    /\ pc' = "reset"
    /\ UNCHANGED <<registry, call, err, ret, stepper, constrain_ops, callback_ops,
                   time, dt, time0, stage, n_steps>>

\* the reset loop running over no block
do_step_reset_skipped ==
    /\ pc = "reset"
    /\ pc' = "return"
    /\ UNCHANGED <<registry, call, err, ret, stepper, blocks, constrain_ops,
                   callback_ops, callback_log, time, dt, time0, stage, oplog, n_steps>>

\* for system in _memory_blocks: system.reset_external_forces_and_torques(time)
do_step_reset ==
    /\ pc = "reset"
    /\ blocks' = [b \in DOMAIN blocks |-> reset_external_forces_and_torques(blocks[b])]
    /\ oplog' = oplog \o BlockEntries("reset_external_forces_and_torques",
                                      n_stages(stepper), time)
    /\ pc' = "return"
    /\ UNCHANGED <<registry, call, err, ret, stepper, constrain_ops, callback_ops, callback_log,
                   time, dt, time0, stage, n_steps>>

\* return time
do_step_return ==
    /\ pc = "return"
    /\ ret' = time
    /\ pc' = "idle"
    /\ UNCHANGED <<registry, call, err, stepper, blocks, constrain_ops, callback_ops, callback_log,
                   time, dt, time0, stage, oplog, n_steps>>

\* the statements of do_step that call operators, by position
PerBlockPcs == {"kin", "uif", "dyn", "last_kin", "reset"}
ConstraintPcs == {"cv", "cr", "last_cv"}
LastStagePcs == {"last_kin", "last_cv", "cb", "reset"}

\* the operation the statement at a position performs
OperationAt(at) ==
    CASE at \in {"kin", "last_kin"} -> "kinematic"
      [] at \in {"cv", "last_cv"} -> "constrain_values"
      [] at = "uif" -> "update_internal_forces_and_torques"
      [] at = "sync" -> "synchronize"
      [] at = "dyn" -> "dynamic"
      [] at = "cr" -> "constrain_rates"
      [] at = "cb" -> "apply_callbacks"
      [] at = "reset" -> "reset_external_forces_and_torques"

\* the number of operators the statement at a position calls, one after the
\* other
CallsAt(at) ==
    IF at \in PerBlockPcs THEN Len(memory_blocks)
    ELSE IF at \in ConstraintPcs THEN Len(constrain_ops)
    ELSE IF at = "sync" THEN Len(Operators(feature_group_synchronize))
    ELSE Len(callback_ops)

StageAt(at) == IF at \in LastStagePcs THEN n_stages(stepper) ELSE stage

\* what the statement at pc does to a block
BlockOperation(block) ==
    CASE pc = "kin" -> kinematic_step(stepper.variant, Stage(stage)[2], dt, block)
      [] pc = "last_kin" ->
            kinematic_step(stepper.variant, Stage(n_stages(stepper))[2], dt, block)
      [] pc = "dyn" -> dynamic_step(stepper.variant, Stage(stage)[3], dt, block)
      [] pc = "uif" -> block
      [] pc = "reset" -> reset_external_forces_and_torques(block)

\* the blocks when the j-th operator called by the statement at pc raises:
\* the operators called before it have run
BlocksBeforeRaise(j) ==
    IF pc \in PerBlockPcs
    THEN [b \in DOMAIN blocks |-> IF b < j THEN BlockOperation(blocks[b]) ELSE blocks[b]]
    ELSE IF pc \in {"cv", "last_cv"}
    THEN constrain_values(SubSeq(constrain_ops, 1, j - 1), blocks)
    ELSE IF pc = "cr"
    THEN constrain_rates(SubSeq(constrain_ops, 1, j - 1), blocks)
    ELSE IF pc = "sync"
    THEN [b \in DOMAIN blocks |-> [blocks[b] EXCEPT !.ext = @ + (j - 1)]]
    ELSE apply_callbacks(SubSeq(callback_ops, 1, j - 1), blocks)

\* the calls do_step has made when the j-th operator of the statement at pc
\* raises
EntriesBeforeRaise(j) ==
    IF pc \in PerBlockPcs
    THEN [b \in 1..j |-> Entry(OperationAt(pc), StageAt(pc), b, time)]
    ELSE <<Entry(OperationAt(pc), StageAt(pc), 0, time)>>

\* an exception of an operator caught inside do_step, which goes on with
\* the statement after the call
do_step_raise_caught ==
    /\ pc \in PerBlockPcs \cup ConstraintPcs \cup {"sync", "cb"}
    /\ CallsAt(pc) > 0
    /\ oplog' = oplog \o EntriesBeforeRaise(1)
    /\ pc' = CASE pc = "kin" -> "adv" [] pc = "cv" -> "uif" [] pc = "uif" -> "sync"
                [] pc = "sync" -> "dyn" [] pc = "dyn" -> "cr" [] pc = "cr" -> "last_kin"
                [] pc = "last_kin" -> "last_adv" [] pc = "last_cv" -> "cb"
                [] pc = "cb" -> "reset" [] pc = "reset" -> "return"
    /\ UNCHANGED <<registry, call, err, ret, stepper, blocks, constrain_ops, callback_ops,
                   callback_log, time, dt, time0, stage, n_steps>>

\* an operator called by do_step raises: do_step has no handler, so the
\* exception leaves do_step and step at once
do_step_raise ==
    /\ pc \in PerBlockPcs \cup ConstraintPcs \cup {"sync", "cb"}
    /\ \E j \in 1..CallsAt(pc) :
          /\ blocks' = BlocksBeforeRaise(j)
          /\ oplog' = oplog \o EntriesBeforeRaise(j)
          /\ callback_log' =
                 IF pc = "cb"
                 THEN callback_invocations(SubSeq(callback_ops, 1, j), time,
                                           RoundDiv(time, dt), Len(oplog))
                 ELSE callback_log
    /\ err' = E_OPERATOR
    /\ pc' = "idle"
    /\ UNCHANGED <<registry, call, ret, stepper, constrain_ops, callback_ops,
                   time, dt, time0, stage, n_steps>>

----------------------------------------------------------------------------
(* Specification of the setup phase and of finalize *)

NoStepper == [variant |-> "none", built |-> FALSE, steps_and_prefactors |-> <<>>]

\* BaseSystemCollection.__init__ and Contact.__init__
Init ==
    /\ systems = <<>>
    /\ memory_blocks = <<>>
    /\ finalize_flag = FALSE
    /\ feature_group_finalize =
           [none |-> FALSE, ops |-> <<"_finalize_contact", "_finalize_forcing">>]
    /\ feature_group_synchronize = <<>>
    /\ contacts = [deleted |-> FALSE, list |-> <<>>]
    /\ forcings = <<>>
    /\ warning_log = <<>>
    /\ finalize_log = <<>>
    /\ n_aggregate = 0
    /\ n_declared = 0
    /\ designated = <<>>
    /\ n_mutations = 0
    /\ call = "__init__"
    /\ err = "none"
    /\ ret = 0
    /\ stepper = NoStepper
    /\ blocks = <<>>
    /\ constrain_ops = <<>>
    /\ callback_ops = <<>>
    /\ callback_log = <<>>
    /\ time = 0
    /\ dt = 0
    /\ time0 = 0
    /\ stage = 1
    /\ pc = "idle"
    /\ oplog = <<>>
    /\ n_steps = 0

\* the arguments a user passes where a system or an index is expected
Indices == {IntArg(i) : i \in (-Len(systems) - 1)..Len(systems)}
Objects == {SysArg(s) : s \in UserSystems}
FirstArgs == {IntArg(0), SysArg(RodA), SysArg(Alien)}
SecondArgs == {IntArg(0), IntArg(Len(systems))}
UsingArgs == {<<"RodContact", "ok">>, <<"RodContact", "bad">>, <<"NotAContact", "ok">>}

\* setup of a simulator with contacts and forcing, and its finalize; using()
\* is chained to the declaration, detect_contact_between(a, b).using(...),
\* so it is called on the handle of the latest declaration
Next ==
    \/ \E s \in UserSystems : UserCount(systems) < MaxBodies /\ append(s)
    \/ \E a \in FirstArgs, b \in SecondArgs : detect_contact_between(a, b)
    \/ \E u \in UsingArgs : using(Len(contacts.list), u[1], u[2])
    \/ \E x \in {IntArg(0)} : add_forcing_to(x)
    \/ finalize

Spec == Init /\ [][Next]_vars

----------------------------------------------------------------------------
(* Specification of the contact declarations: using() called on any handle *)
(* the user kept, any number of times, before finalize and after a         *)
(* finalize that failed                                                    *)

NextUsing ==
    \/ \E s \in UserSystems : UserCount(systems) < MaxBodies /\ append(s)
    \/ \E a \in FirstArgs, b \in SecondArgs : detect_contact_between(a, b)
    \/ \E k \in 1..Len(contacts.list), u \in UsingArgs : using(k, u[1], u[2])
    \/ finalize

SpecUsing == Init /\ [][NextUsing]_vars

----------------------------------------------------------------------------
(* Specification of the contact declarations by index, on an entity        *)
(* sequence that changes between the declaration and finalize              *)

IndexArgs == {IntArg(-1), IntArg(0)}

NextDesignated ==
    \/ \E s \in {RodA, RodB} : append(s)
    \/ \E s \in {RodB} : insert(0, s)
    \/ \E s \in {RodB} : __setitem__(0, s)
    \/ __delitem__(0)
    \/ \E a \in IndexArgs, b \in IndexArgs : detect_contact_between(a, b)
    \/ \E k \in 1..Len(contacts.list) : using(k, "RodContact", "ok")
    \/ finalize

SpecDesignated == Init /\ [][NextDesignated]_vars

----------------------------------------------------------------------------
(* Specification of the entity sequence: its mutation and lookup before    *)
(* and after finalize                                                      *)

NextSequence ==
    \/ \E s \in UserSystems : append(s)
    \/ \E i \in 0..1, s \in UserSystems : insert(i, s)
    \/ \E i \in -1..Len(systems), s \in UserSystems : __setitem__(i, s)
    \/ \E i \in -1..Len(systems) : __delitem__(i)
    \/ \E x \in Indices \cup Objects : resolve_index(x)
    \/ finalize

SpecSequence == Init /\ [][NextSequence]_vars

----------------------------------------------------------------------------
(* Specification of the time stepper on a finalized simulator *)

\* the simulator after finalize: two rods, with a rigid body when there are
\* two blocks, and the operators of nops declarations bound into synchronize
Bodies(nblocks) == IF nblocks = 1 THEN <<RodA, RodB>> ELSE <<RodA, RodB, Rigid>>
Aggregated(nblocks) ==
    IF nblocks = 1 THEN <<Sys("rodblock", 1)>>
    ELSE <<Sys("rodblock", 1), Sys("rigidblock", 1)>>

BoundContact(id) ==
    [owner |-> id, ops |-> <<ContactClosure(_Contact(id, 0, 1))>>]
BoundForcing(id) ==
    [owner |-> id, ops |-> <<ForcingClosure([id |-> id, sys_idx |-> 0])>>]
FinalizedGroups ==
    {<<>>, <<BoundContact(1)>>, <<BoundForcing(1), BoundContact(2)>>}

\* the callbacks a user registered: any sequence of callbacks that leave a
\* force on the blocks or not
CallbackChoices ==
    UNION {{[k \in 1..n |-> [id |-> k, push |-> f[k]]] : f \in [1..n -> {0, 1}]}
               : n \in 0..MaxCallbacks}

\* the statements a successful finalize executes on n entities that
\* aggregate into nblocks blocks
FinalizeStatements(n, nblocks) ==
    <<Did("aggregate", n)>> \o [k \in 1..nblocks |-> Did("append", n + k)]
        \o <<Did("_finalize_contact", n + nblocks),
              Did("_finalize_forcing", n + nblocks),
              Did("clear", n + nblocks), Did("discard", n + nblocks),
              Did("set_flag", n + nblocks)>>

ConstraintChoices == {<<>>, <<[id |-> 1, blk |-> 1]>>}

StepInit ==
    /\ \E nblocks \in 1..2 :
          /\ systems = Bodies(nblocks) \o Aggregated(nblocks)
          /\ memory_blocks = Aggregated(nblocks)
          /\ \E v \in 0..MaxVel :
                blocks = [b \in 1..nblocks |->
                             [pos |-> 0, vel |-> v, ext |-> 0, pos0 |-> 0, vel0 |-> v]]
    /\ finalize_flag = TRUE
    /\ feature_group_finalize = [none |-> TRUE, ops |-> <<>>]
    /\ feature_group_synchronize \in FinalizedGroups
    /\ contacts = [deleted |-> TRUE, list |-> <<>>]
    /\ forcings = <<>>
    /\ warning_log = <<>>
    /\ finalize_log = FinalizeStatements(Len(systems) - Len(memory_blocks),
                                         Len(memory_blocks))
    /\ n_aggregate = 1
    /\ n_declared = Len(feature_group_synchronize)
    /\ designated = [k \in 1..n_declared |->
                         <<At(systems, feature_group_synchronize[k].ops[1].first_sys_idx),
                           At(systems, feature_group_synchronize[k].ops[1].second_sys_idx)>>]
    /\ n_mutations = 0
    /\ call = "finalize"
    /\ err = "none"
    /\ ret = 0
    /\ stepper = NoStepper
    /\ constrain_ops \in ConstraintChoices
    /\ callback_ops \in CallbackChoices
    /\ callback_log = <<>>
    /\ time = 0
    /\ dt \in {100 * k : k \in 1..MaxDt}
    /\ time0 = 0
    /\ stage = 1
    /\ pc = "idle"
    /\ oplog = <<>>
    /\ n_steps = 0

\* a failed step aborts the run: the caller takes no further step
NextStep ==
    \/ \E v \in Variants : construct(v)
    \/ err = "none" /\ step
    \/ do_step_kinematic
    \/ do_step_advance
    \/ do_step_constrain_values
    \/ do_step_update_internal
    \/ do_step_synchronize
    \/ do_step_dynamic
    \/ do_step_constrain_rates
    \/ do_step_last_kinematic
    \/ do_step_last_advance
    \/ do_step_last_constrain_values
    \/ do_step_apply_callbacks
    \/ do_step_reset
    \/ do_step_return
    \/ do_step_raise

SpecStep == StepInit /\ [][NextStep]_vars

----------------------------------------------------------------------------
(* Properties of the registry lifecycle *)

\* C1: after a successful finalize(), a further call of finalize() raises the
\* lifecycle error and leaves the whole registry state as it was
C1_SecondFinalizeRaises ==
    [][(finalize_flag /\ call' = "finalize")
        => (err' = E_TWICE /\ registry' = registry)]_vars

\* C1 witness: finalize() was called on a finalized simulator that holds
\* systems, blocks and bound operators
C1_Witness ==
    /\ finalize_flag
    /\ call = "finalize"
    /\ err = E_TWICE
    /\ memory_blocks # <<>>
    /\ Operators(feature_group_synchronize) # <<>>

StructuralMutations == {"append", "insert", "__setitem__", "__delitem__"}

\* C2: once the finalize flag is true, every structural mutation of the
\* entity sequence fails and leaves the sequence unchanged
C2_NoMutationAfterFinalize ==
    [][(finalize_flag /\ call' \in StructuralMutations)
        => (err' # "none" /\ systems' = systems)]_vars

\* C3: resolving the entity that was just appended returns the position at
\* which it was appended, also when an equal entity occurs earlier
C3_ResolveJustAppended ==
    [][(/\ call = "append"
        /\ err = "none"
        /\ call' = "_get_sys_idx_if_valid"
        /\ resolve_index(SysArg(At(systems, -1))))
        => (err' = "none" /\ ret' = Len(systems) - 1)]_vars

----------------------------------------------------------------------------
(* Properties of the contact module *)

Unset(contact) == contact.contact_cls = "None"

\* the declaration is one that _finalize_contact binds without raising
Binds(syss, contact) ==
    /\ contact.contact_cls = "RodContact"
    /\ contact.args = "ok"
    /\ InRange(syss, contact.first_sys_idx)
    /\ InRange(syss, contact.second_sys_idx)
    /\ At(syss, contact.first_sys_idx).kind \in RodLike
    /\ At(syss, contact.second_sys_idx).kind \in RodLike

\* the operators bound into synchronize for a declaration
BoundFor(group, contact) == group[SlotOf(group, contact.id)].ops

FinalizeWithUnset ==
    /\ ~finalize_flag
    /\ call' = "finalize"
    /\ \E k \in 1..Len(contacts.list) : Unset(contacts.list[k])

\* C4 as stated: a declaration without using() makes finalize() raise a
\* construction error, and no operator is bound for it
C4_Original ==
    [][FinalizeWithUnset
        => /\ err' \in {E_NO_USING, E_CONSTRUCT}
           /\ \A k \in 1..Len(contacts.list) :
                Unset(contacts.list[k])
                    => BoundFor(feature_group_synchronize', contacts.list[k]) = <<>>]_vars

\* C4 amended: a declaration without using() makes finalize() raise, and no
\* operator is bound for it; the error is the construction error of that
\* declaration when every declaration made before it binds
C4_MissingUsingIsFatal ==
    [][FinalizeWithUnset
        => /\ err' # "none"
           /\ ~finalize_flag'
           /\ \A k \in 1..Len(contacts.list) :
                Unset(contacts.list[k])
                    => /\ BoundFor(feature_group_synchronize', contacts.list[k]) = <<>>
                       /\ (\A j \in 1..(k - 1) : Binds(systems', contacts.list[j]))
                              => err' = E_NO_USING]_vars

\* C4 witness: finalize() raised the construction error for a declaration
\* without using(), made after a declaration that was bound
C4_Witness ==
    /\ call = "finalize"
    /\ err = E_NO_USING
    /\ ~finalize_flag
    /\ \E j, k \in 1..Len(contacts.list) :
          /\ j < k
          /\ Unset(contacts.list[k])
          /\ BoundFor(feature_group_synchronize, contacts.list[j]) # <<>>
          /\ BoundFor(feature_group_synchronize, contacts.list[k]) = <<>>

\* C5: a finalize() that raises a contact construction or validation error
\* leaves the registry as it was before the call
C5_NoPartialFinalize ==
    [][(call' = "finalize" /\ err' \in {E_NO_USING, E_CONSTRUCT, E_VALIDITY})
        => /\ systems' = systems
           /\ feature_group_synchronize' = feature_group_synchronize
           /\ contacts' = contacts
           /\ feature_group_finalize' = feature_group_finalize
           /\ finalize_flag' = FALSE]_vars

\* C6: after finalize the slots of synchronize are the declarations in the
\* order they were made (finalize adds no slot), and the operators of every
\* declaration sit in its slot
C6_DeclarationOrder ==
    finalize_flag =>
        /\ Len(feature_group_synchronize) = n_declared
        /\ \A k \in 1..Len(feature_group_synchronize) :
              /\ feature_group_synchronize[k].owner = k
              /\ feature_group_synchronize[k].ops # <<>>
              /\ \A i \in 1..Len(feature_group_synchronize[k].ops) :
                    feature_group_synchronize[k].ops[i].owner = k

\* C6 witness: a forcing declared between two contacts keeps its place,
\* although the contacts are bound before the forcings at finalize
C6_Witness ==
    /\ finalize_flag
    /\ Len(feature_group_synchronize) = 3
    /\ feature_group_synchronize[1].ops[1].kind = "contact"
    /\ feature_group_synchronize[2].ops[1].kind = "forcing"
    /\ feature_group_synchronize[3].ops[1].kind = "contact"

----------------------------------------------------------------------------
(* Properties of one step of the symplectic stepper *)

\* a call of step() has returned
StepReturned == call = "step" /\ pc = "idle" /\ err = "none" /\ n_steps > 0

\* what the log records of an operation: its name, its stage and its block
Performed == [k \in DOMAIN oplog |-> <<oplog[k].op, oplog[k].stage, oplog[k].blk>>]

OnEveryBlock(op, i, B) == [b \in 1..B |-> <<op, i, b>>]
Once(op, i) == << <<op, i, 0>> >>

FullStage(i, B) ==
    OnEveryBlock("kinematic", i, B) \o Once("advance", i)
        \o Once("constrain_values", i)
        \o OnEveryBlock("update_internal_forces_and_torques", i, B)
        \o Once("synchronize", i)
        \o OnEveryBlock("dynamic", i, B) \o Once("constrain_rates", i)

RECURSIVE FullStages(_, _, _)
FullStages(i, S, B) ==
    IF i >= S THEN <<>> ELSE FullStage(i, B) \o FullStages(i + 1, S, B)

ExpectedSequence(S, B) ==
    FullStages(1, S, B)
        \o OnEveryBlock("kinematic", S, B) \o Once("advance", S)
        \o Once("constrain_values", S)
        \o Once("apply_callbacks", S)
        \o OnEveryBlock("reset_external_forces_and_torques", S, B)

Count(op) == Cardinality({k \in DOMAIN oplog : oplog[k].op = op})

\* C7: a step() of a stepper with S stages performs, for each of the first
\* S-1 stages, kinematic on every block, the time advance, constrain_values,
\* the internal force update on every block, synchronize, dynamic on every
\* block and constrain_rates; for the last stage kinematic on every block,
\* the time advance and constrain_values only; then apply_callbacks; then the
\* reset on every block. synchronize and constrain_rates run S-1 times and
\* constrain_values S times.
C7_StepSequence ==
    StepReturned =>
        /\ Performed = ExpectedSequence(n_stages(stepper), Len(memory_blocks))
        /\ Count("synchronize") = n_stages(stepper) - 1
        /\ Count("constrain_rates") = n_stages(stepper) - 1
        /\ Count("constrain_values") = n_stages(stepper)

C7_Witness ==
    /\ StepReturned
    /\ n_stages(stepper) = 5
    /\ Len(memory_blocks) = 2
    /\ Count("synchronize") = 4
    /\ n_steps = 2

\* C8: after every step() that returns, the external force accumulator of
\* every block is zero whatever synchronize and the callbacks added, and the
\* resets are the last operations of the step, right after apply_callbacks.
C8_ExternalForcesReset ==
    StepReturned =>
        LET B == Len(memory_blocks)
            n == Len(oplog)
        IN  /\ \A b \in DOMAIN blocks : blocks[b].ext = 0
            /\ n > B
            /\ \A k \in (n - B + 1)..n :
                  oplog[k].op = "reset_external_forces_and_torques"
            /\ oplog[n - B].op = "apply_callbacks"
            /\ \A k \in 1..(n - B) :
                  oplog[k].op # "reset_external_forces_and_torques"

C8_Witness ==
    /\ StepReturned
    /\ Len(Operators(feature_group_synchronize)) = 2
    /\ SumPush(callback_ops) > 0
    /\ Len(memory_blocks) = 2
    /\ \A b \in DOMAIN blocks : blocks[b].ext = 0

Abs(x) == IF x < 0 THEN -x ELSE x

RECURSIVE SumPrefactors(_, _, _)
SumPrefactors(variant, stages, d) ==
    IF stages = <<>> THEN 0
    ELSE Prefactor(variant, Head(stages)[1], d)
             + SumPrefactors(variant, Tail(stages), d)

RECURSIVE SumCoefficients(_, _)
SumCoefficients(variant, stages) ==
    IF stages = <<>> THEN 0
    ELSE Coefficient(variant, Head(stages)[1])
             + SumCoefficients(variant, Tail(stages))

PEFRLStepReturned == StepReturned /\ stepper.variant = "PEFRL"

\* C9 as stated: the prefactors of the PEFRL stages sum to dt and a PEFRL
\* step() returns exactly time + dt.
C9_Original ==
    PEFRLStepReturned =>
        /\ SumPrefactors("PEFRL", stepper.steps_and_prefactors, dt) = dt
        /\ ret = time0 + dt

\* C9: the coefficients of the PEFRL stages sum to one, and the prefactors,
\* each rounded once, sum to dt up to half a unit of rounding per stage; a
\* PEFRL step() returns time + dt up to that rounding.
C9_PrefactorsSumToDt ==
    PEFRLStepReturned =>
        /\ SumCoefficients("PEFRL", stepper.steps_and_prefactors) = ONE
        /\ 2 * Abs(SumPrefactors("PEFRL", stepper.steps_and_prefactors, dt) - dt)
               <= n_stages(stepper)
        /\ 2 * Abs(ret - (time0 + dt)) <= n_stages(stepper)

C9_Witness ==
    /\ PEFRLStepReturned
    /\ ret # time0 + dt
    /\ 2 * Abs(ret - (time0 + dt)) <= n_stages(stepper)

\* one free point mass: one block, no constraint, no forcing or contact, no
\* callback leaving a force, and a nonzero velocity
FreePointMass ==
    /\ Len(memory_blocks) = 1
    /\ constrain_ops = <<>>
    /\ Operators(feature_group_synchronize) = <<>>
    /\ SumPush(callback_ops) = 0
    /\ blocks[1].vel0 # 0

\* C10: a PositionVerlet stepper on one free point mass can take a step, and
\* a single step() advances the position by exactly v*dt and leaves the
\* velocity unchanged.
C10_PositionVerletFreeMass ==
    (stepper.variant = "PositionVerlet" /\ FreePointMass) =>
        /\ stepper.built
        /\ (StepReturned /\ n_steps = 1) =>
               /\ blocks[1].pos = blocks[1].pos0 + blocks[1].vel0 * dt
               /\ blocks[1].vel = blocks[1].vel0

----------------------------------------------------------------------------
(* Properties of the construction of the steppers *)

\* C11: a PositionVerlet stepper can be constructed, its two stages both
\* carry the 0.5*dt prefactor, and its step() returns time + dt.
C11_PositionVerletConstructs ==
    stepper.variant = "PositionVerlet" =>
        /\ err = "none"
        /\ n_stages(stepper) = 2
        /\ \A k \in 1..n_stages(stepper) :
              Prefactor("PositionVerlet", Stage(k)[1], dt) = Mul(HALF, dt)
        /\ (StepReturned => ret = time0 + dt)

----------------------------------------------------------------------------
(* Properties of the declarations and of finalize, continued *)

\* the slots of synchronize holding a bound contact that is not the last
\* entry of the group; every class using() accepts derives from NoContact,
\* the class Contact.warnings tests for
ContactsNotLast ==
    {k \in 1..(Len(feature_group_synchronize) - 1) :
        /\ feature_group_synchronize[k].ops # <<>>
        /\ feature_group_synchronize[k].ops[1].kind = "contact"}

Warned(owner) == \E j \in 1..Len(warning_log) : warning_log[j] = owner

\* C12: when finalize has succeeded, a warning was emitted for every contact
\* whose operator is not the last entry of the synchronize group, and none
\* for a contact that is last.
C12_WarningForContactNotLast ==
    finalize_flag =>
        /\ \A k \in ContactsNotLast : Warned(feature_group_synchronize[k].owner)
        /\ feature_group_synchronize # <<>> =>
               ~Warned(feature_group_synchronize[Len(feature_group_synchronize)].owner)

\* C13: using() fails at the call when the class is not a contact class and
\* then leaves the declaration, and the whole registry, as it was, so that a
\* declaration without an algorithm stays without one; when it succeeds it
\* records the class and its arguments on the declaration, changes nothing
\* else and returns the handle it was called on.
C13_UsingChecksAtCall ==
    [][\A k \in 1..Len(contacts.list), u \in UsingArgs :
          using(k, u[1], u[2]) =>
              IF u[1] = "NotAContact"
              THEN /\ err' = E_NOT_CONTACT
                   /\ registry' = registry
                   /\ Unset(contacts.list[k]) => Unset(contacts'.list[k])
              ELSE /\ err' = "none"
                   /\ ret' = contacts.list[k].id
                   /\ contacts'.list[k].contact_cls = u[1]
                   /\ contacts'.list[k].args = u[2]
                   /\ contacts'.list[k].id = contacts.list[k].id
                   /\ \A j \in 1..Len(contacts.list) :
                         j # k => contacts'.list[j] = contacts.list[j]
                   /\ Len(contacts'.list) = Len(contacts.list)
                   /\ systems' = systems
                   /\ feature_group_synchronize' = feature_group_synchronize]_vars

\* C13 witness: using() has just failed on a declaration that has no
\* algorithm, after it succeeded on another declaration
C13_Witness ==
    /\ call = "using"
    /\ err = E_NOT_CONTACT
    /\ Len(contacts.list) = 2
    /\ contacts.list[1].contact_cls = "RodContact"
    /\ Unset(contacts.list[2])
    /\ ~finalize_flag

----------------------------------------------------------------------------
(* Properties of the entity sequence, continued *)

\* the entity is one of the three ways of adding it
Adds(i, s) == append(s) \/ insert(i, s) \/ __setitem__(i, s)

\* C14: append, insert and replace fail with the type error when the type of
\* the entity is not allowed, and with the prerequisite error when it is
\* allowed but needs a module the simulator lacks, and then leave the
\* sequence unchanged; the sequence changes only when both checks pass, and
\* then the entity is where it was put.
C14_AddChecksEntity ==
    [][\A s \in UserSystems, i \in -1..Len(systems) :
          Adds(i, s) =>
              IF s.kind = "alien"
              THEN err' = E_TYPE /\ systems' = systems
              ELSE IF s.kind = "needy"
              THEN err' = E_REQUISITE /\ systems' = systems
              ELSE /\ err' \in {"none", E_INDEX}
                   /\ err' = E_INDEX => (call' = "__setitem__" /\ systems' = systems)
                   /\ err' = "none" =>
                         \E k \in 1..Len(systems') : systems'[k] = s
                   /\ (err' = "none" /\ call' = "append") =>
                         systems' = Append(systems, s)
                   /\ (err' = "none" /\ call' = "insert") =>
                         Len(systems') = Len(systems) + 1
                   /\ (err' = "none" /\ call' = "__setitem__") =>
                         (Len(systems') = Len(systems) /\ At(systems', i) = s)]_vars

\* C14 witness: a replacement by an entity needing a missing module was
\* refused on a sequence that holds entities
C14_Witness ==
    /\ call = "__setitem__"
    /\ err = E_REQUISITE
    /\ Len(systems) >= 1
    /\ \A k \in 1..Len(systems) : systems[k].kind # "needy"

Registered(s) == \E k \in 1..Len(systems) : systems[k] = s

\* what resolving an integer does: it succeeds exactly when -n <= i < n, a
\* negative i standing for the entity counted from the end, and fails with
\* the range error otherwise
ResolvesInteger(x) ==
    /\ (err' = "none") = (-Len(systems) <= x.int /\ x.int < Len(systems))
    /\ err' \in {"none", E_RANGE}
    /\ err' = "none" =>
          /\ ret' = x.int
          /\ x.int < 0 => At(systems, ret') = systems[Len(systems) + x.int + 1]

\* C15 as stated: resolving an integer i with n registered entities succeeds
\* exactly when -n <= i < n and fails with the range error otherwise;
\* resolving an entity of an allowed type that is not in the sequence fails
\* with the lookup error; a failed resolve changes no registry state.
C15_Original ==
    [][\A x \in Indices \cup Objects :
          resolve_index(x) =>
              /\ registry' = registry
              /\ x.tag = "int" => ResolvesInteger(x)
              /\ (x.tag = "sys" /\ x.sys.kind \in allowed_sys_types
                                /\ ~Registered(x.sys)) => err' = E_LOOKUP]_vars

\* C15 amended: as stated, but the entity must pass both checks made on an
\* added entity to reach the lookup: an entity of an allowed type that needs
\* a module the simulator lacks fails with the prerequisite error instead.
C15_ResolveRange ==
    [][\A x \in Indices \cup Objects :
          resolve_index(x) =>
              /\ registry' = registry
              /\ x.tag = "int" => ResolvesInteger(x)
              /\ (x.tag = "sys" /\ x.sys.kind \in {"rod", "rigid"}) =>
                    IF Registered(x.sys)
                    THEN err' = "none" /\ systems[ret' + 1] = x.sys
                    ELSE err' = E_LOOKUP
              /\ (x.tag = "sys" /\ x.sys.kind = "needy") => err' = E_REQUISITE]_vars

\* C15 witness: the most negative index in range was resolved on a sequence
\* of two entities
C15_Witness ==
    /\ call = "_get_sys_idx_if_valid"
    /\ err = "none"
    /\ Len(systems) = 2
    /\ ret = -2

----------------------------------------------------------------------------
(* Properties of finalize, continued *)

IsBlock(sys) == sys.kind \in {"rodblock", "rigidblock"}

BlocksInSequence == Cardinality({k \in 1..Len(systems) : IsBlock(systems[k])})

\* C16: the aggregation is invoked at most once in the lifetime of the
\* simulator, also when a finalize() fails and is called again, and exactly
\* once when the finalize flag is true; the blocks it returned are in the
\* entity sequence exactly once.
C16_AggregateOnce ==
    /\ n_aggregate <= 1
    /\ finalize_flag => n_aggregate = 1
    /\ BlocksInSequence = Len(memory_blocks)

\* C17: a successful finalize() aggregates the entities and appends every
\* block to the entity sequence, then calls every operator of the finalize
\* group once in insertion order, each seeing the blocks in the sequence,
\* then clears and discards the group, then sets the finalize flag; the flag
\* is never reset afterwards.
C17_FinalizeOrder ==
    [][/\ (call' = "finalize" /\ err' = "none") =>
            LET n == Len(systems)
                B == Len(memory_blocks')
                ops == feature_group_finalize.ops
            IN  /\ systems' = systems \o memory_blocks'
                /\ finalize_log' =
                       finalize_log \o <<Did("aggregate", n)>>
                           \o [k \in 1..B |-> Did("append", n + k)]
                           \o [k \in 1..Len(ops) |-> Did(ops[k], n + B)]
                           \o <<Did("clear", n + B), Did("discard", n + B),
                                Did("set_flag", n + B)>>
                /\ feature_group_finalize' = [none |-> TRUE, ops |-> <<>>]
                /\ finalize_flag'
       /\ finalize_flag => finalize_flag']_vars

\* C17 witness: finalize() has succeeded on a simulator with an entity, a
\* contact and a forcing, and built a block
C17_Witness ==
    /\ call = "finalize"
    /\ err = "none"
    /\ finalize_flag
    /\ memory_blocks # <<>>
    /\ Len(Operators(feature_group_synchronize)) = 2
    /\ finalize_log[Len(finalize_log)] = Did("set_flag", Len(systems))

----------------------------------------------------------------------------
(* Properties of step_methods *)

\* the lists step_methods holds after mirroring
Mirrored(declared) == declared \o MirrorTail(declared)

Constructed == call = "construct" /\ stepper.variant \in Variants

\* C18: for PositionVerlet and for PEFRL the mirrored steps and prefactors
\* satisfy len(steps) = 2 * len(prefactors) - 1, so the construction of the
\* stepper does not fail the assertion of step_methods.
C18_MirroredLengths ==
    Constructed =>
        /\ Len(Mirrored(get_steps(stepper.variant)))
               = 2 * Len(Mirrored(get_prefactors(stepper.variant))) - 1
        /\ err # E_STEPS
        /\ stepper.built

\* C19 as stated: a stepper that declares n prefactors has n execution
\* stages.
C19_Original ==
    stepper.built => n_stages(stepper) = Len(get_prefactors(stepper.variant))

\* C19 amended: a stepper that declares n prefactors and is constructed has
\* 2n - 1 execution stages, one for every prefactor of the mirrored list.
C19_StageCount ==
    stepper.built =>
        /\ n_stages(stepper) = 2 * Len(get_prefactors(stepper.variant)) - 1
        /\ n_stages(stepper) = Len(Mirrored(get_prefactors(stepper.variant)))

\* C19 witness: a PEFRL stepper, which declares three prefactors, has been
\* constructed
C19_Witness ==
    /\ Constructed
    /\ stepper.built
    /\ Len(get_prefactors(stepper.variant)) = 3
    /\ n_stages(stepper) = 5

\* C20: the execution stages are palindromic: the prefactors and the
\* kinematic operators read the same forwards and backwards around the
\* center stage, the real dynamic operators do so too, and only the dynamic
\* operator of the final stage is the filled-in no-op.
C20_Palindromic ==
    stepper.built =>
        LET S == stepper.steps_and_prefactors
            n == Len(S)
        IN  /\ \A k \in 1..n :
                  /\ S[k][1] = S[n + 1 - k][1]
                  /\ S[k][2] = S[n + 1 - k][2]
                  /\ S[k][1] # "no_operation"
                  /\ S[k][2] # "no_operation"
            /\ \A k \in 1..(n - 1) :
                  /\ S[k][3] = S[n - k][3]
                  /\ S[k][3] # "no_operation"
            /\ S[n][3] = "no_operation"

\* C20 witness: the five stages of PEFRL, with the third kinematic step at
\* the center and the first at both ends
C20_Witness ==
    /\ stepper.built
    /\ n_stages(stepper) = 5
    /\ Stage(3)[2] = "_third_kinematic_step"
    /\ Stage(1)[2] = "_first_kinematic_step"
    /\ Stage(5)[2] = "_first_kinematic_step"
    /\ Stage(5)[3] = "no_operation"
    /\ pc = "idle"
    /\ n_steps = 1

----------------------------------------------------------------------------
(* Properties of one step of the symplectic stepper, continued *)

Aborted == call = "step" /\ err = E_OPERATOR

\* C21: when an operator called during step() raises, the exception reaches
\* the caller of step(): do_step is left at once, the step returns nothing
\* and is not started again, the raising call is the last operation of the
\* step, and the callbacks are not invoked unless all stages were complete.
C21_ExceptionsPropagate ==
    [][do_step_raise =>
          /\ err' = E_OPERATOR
          /\ pc' = "idle"
          /\ ret' = ret
          /\ time' = time
          /\ n_steps' = n_steps
          /\ oplog'[Len(oplog')].op = OperationAt(pc)
          /\ SubSeq(oplog', 1, Len(oplog)) = oplog
          /\ pc \notin {"cb", "reset"} =>
                /\ callback_log' = <<>>
                /\ \A k \in 1..Len(oplog') : oplog'[k].op # "apply_callbacks"]_vars

\* C21 witness: a synchronize operator raised in the second stage of a step
\* of a simulator with callbacks, none of which was invoked
C21_Witness ==
    /\ Aborted
    /\ pc = "idle"
    /\ oplog # <<>>
    /\ oplog[Len(oplog)].op = "synchronize"
    /\ oplog[Len(oplog)].stage = 2
    /\ callback_ops # <<>>
    /\ callback_log = <<>>

InStages == call = "step" /\ pc \notin {"idle", "reset", "return"}

\* C22: in every step() that returns, each registered callback is invoked
\* exactly once, in insertion order, right after the constrain_values of the
\* last stage and before the reset of the external forces, with the time
\* step() returns and the step number round(time / dt); while the stages of
\* a step run, no callback has been invoked.
C22_CallbacksOncePerStep ==
    /\ InStages => callback_log = <<>>
    /\ StepReturned =>
          /\ Count("apply_callbacks") = 1
          /\ Len(callback_log) = Len(callback_ops)
          /\ \A k \in 1..Len(callback_log) :
                /\ callback_log[k].id = callback_ops[k].id
                /\ callback_log[k].time = ret
                /\ callback_log[k].current_step = RoundDiv(ret, dt)
                /\ callback_log[k].after \in 1..(Len(oplog) - 1)
                /\ oplog[callback_log[k].after].op = "constrain_values"
                /\ oplog[callback_log[k].after].stage = n_stages(stepper)
                /\ oplog[callback_log[k].after + 1].op = "apply_callbacks"
                /\ \A n \in (callback_log[k].after + 2)..Len(oplog) :
                      oplog[n].op = "reset_external_forces_and_torques"

\* C22 witness: the second step of a simulator with two callbacks has
\* returned, and both were told step number 2
C22_Witness ==
    /\ StepReturned
    /\ n_steps = 2
    /\ Len(callback_ops) = 2
    /\ Len(callback_log) = 2
    /\ callback_log[1].id # callback_log[2].id
    /\ callback_log[2].current_step = 2
    /\ callback_log[2].time # time0
    /\ Count("reset_external_forces_and_torques") > 0

\* the time do_step has reached after the advance of stage i
TimeAfterStage(i) ==
    time0 + SumPrefactors(stepper.variant, SubSeq(stepper.steps_and_prefactors, 1, i), dt)

AfterAdvance ==
    {"constrain_values", "update_internal_forces_and_torques", "synchronize",
     "constrain_rates"}

TimesPassed(op) == {oplog[k].time : k \in {n \in DOMAIN oplog : oplog[n].op = op}}

\* C23: within a step() started at time t, constrain_values, the internal
\* force update, synchronize and constrain_rates of stage i receive t plus
\* the sum of the prefactors of the stages up to i, the kinematic operator of
\* stage i receives the time before the advance of stage i, and step()
\* returns the time passed to the last constrain_values and to
\* apply_callbacks.
C23_StageTimes ==
    /\ \A k \in DOMAIN oplog :
          /\ oplog[k].op \in AfterAdvance => oplog[k].time = TimeAfterStage(oplog[k].stage)
          /\ oplog[k].op = "kinematic" => oplog[k].time = TimeAfterStage(oplog[k].stage - 1)
    /\ StepReturned =>
          /\ TimesPassed("apply_callbacks") = {ret}
          /\ \E k \in DOMAIN oplog :
                /\ oplog[k].op = "constrain_values"
                /\ oplog[k].stage = n_stages(stepper)
                /\ oplog[k].time = ret
                /\ \A n \in DOMAIN oplog : oplog[n].op = "constrain_values" => n <= k

\* C23 witness: a returned step of five stages in which the synchronize of
\* stage 4 received a time that is neither the start nor the end of the step
\* nor the time of stage 3
C23_Witness ==
    /\ StepReturned
    /\ n_stages(stepper) = 5
    /\ \E k, n \in DOMAIN oplog :
          /\ oplog[k].op = "synchronize"
          /\ oplog[k].stage = 4
          /\ oplog[k].time \notin {time0, ret}
          /\ oplog[n].op = "synchronize"
          /\ oplog[n].stage = 3
          /\ oplog[n].time # oplog[k].time
    /\ ret # time0

----------------------------------------------------------------------------
(* Properties of the contact declarations, continued *)

\* the closures bound into synchronize for contacts
ContactClosures ==
    {op \in UNION {{feature_group_synchronize[k].ops[n] :
                        n \in DOMAIN feature_group_synchronize[k].ops} :
                            k \in DOMAIN feature_group_synchronize} :
        op.kind = "contact"}

\* C24: for every contact declared by detect_contact_between(a, b), the two
\* entities the check at finalize and apply_contact at every later
\* synchronize take from the entity sequence are the entities a and b
\* designated when the contact was declared, also when a or b was a negative
\* index and the sequence has grown since.
C24_DesignatedEntities ==
    \A op \in ContactClosures :
        /\ At(systems, op.first_sys_idx) = designated[op.owner][1]
        /\ At(systems, op.second_sys_idx) = designated[op.owner][2]

\* the entries of synchronize that belong to contact declarations
ContactEntries ==
    {k \in DOMAIN feature_group_synchronize :
        \A n \in DOMAIN feature_group_synchronize[k].ops :
            feature_group_synchronize[k].ops[n].kind = "contact"}

DeclaresAfterFinalize ==
    /\ finalize_flag
    /\ \E a \in FirstArgs, b \in SecondArgs : detect_contact_between(a, b)

====
